---------------------------- MODULE Spec2Model ----------------------------
(***************************************************************************)
(* Model of neo/io/OpenEphysIO.py: the Open_Ephys_IO adapter.              *)
(*                                                                         *)
(* One adapter instance (its only field: dirname) serves read_block calls. *)
(* Every call has its own frame (the locals of read_block and its program  *)
(* position).  The loader (OEIO) and the object model (Block, Segment,     *)
(* AnalogSignal) are collaborators: the loader's answers are inputs drawn  *)
(* from small sets, the constructors build records.                        *)
(*                                                                         *)
(* Strings are sequences of fragments (a path separator is the fragment    *)
(* "/"); an optional value is <<>> (None) or <<v>>.                        *)
(***************************************************************************)
EXTENDS Integers, Sequences, FiniteSets, TLC

(* ------------------------------ bounds -------------------------------- *)
\* largest number of channels (second dimension) the loader answers with
MaxChannels == 2
\* largest number of samples per channel (first dimension)
MaxSamples == 2

\* the call frames of the instance (two, so that calls can overlap)
Calls == {"call_a", "call_b"}

(* ------------------------------ strings ------------------------------- *)
Digits == <<"0", "1", "2", "3", "4", "5", "6", "7", "8", "9">>

\* str(i) for an int i >= 0: its decimal digits
RECURSIVE Str(_)
Str(i) ==
    IF i < 10 THEN <<Digits[i + 1]>>
    ELSE Str(i \div 10) \o <<Digits[(i % 10) + 1]>>

\* os.path.join(a, b) of posixpath: an absolute b discards a; otherwise
\* b is appended, after a separator unless a is empty or ends with one
PathJoin(a, b) ==
    IF b # <<>> /\ b[1] = "/" THEN b
    ELSE IF a = <<>> \/ a[Len(a)] = "/" THEN a \o b
    ELSE a \o <<"/">> \o b

(* --------------------------- header, dates ---------------------------- *)
MonthNames == <<"Jan", "Feb", "Mar", "Apr", "May", "Jun",
                "Jul", "Aug", "Sep", "Oct", "Nov", "Dec">>

IsLeap(y) == (y % 4 = 0 /\ y % 100 # 0) \/ y % 400 = 0

DaysInMonth(y, mo) ==
    IF mo = 2 THEN (IF IsLeap(y) THEN 29 ELSE 28)
    ELSE IF mo \in {4, 6, 9, 11} THEN 30 ELSE 31

\* a creation-timestamp string, by its fields: opening quote, day, separator,
\* month name, separator, year, separator, hour, minute, second, closing quote
DateStr(lq, d, s1, mon, s2, y, s3, h, mi, s, rq) ==
    [lq |-> lq, day |-> d, s1 |-> s1, mon |-> mon, s2 |-> s2, year |-> y,
     s3 |-> s3, hour |-> h, minute |-> mi, second |-> s, rq |-> rq]

\* whether the string matches the pattern "'%d-%b-%Y %H%M%S'"
MatchesPattern(str) ==
    /\ str.lq = "'" /\ str.rq = "'"
    /\ str.s1 = "-" /\ str.s2 = "-" /\ str.s3 = " "
    /\ \E k \in 1..12 : MonthNames[k] = str.mon
    /\ str.year \in 1..9999
    /\ str.hour \in 0..23 /\ str.minute \in 0..59 /\ str.second \in 0..61
    /\ str.day \in 1..31

\* a strptime with the pattern "%d-%b-%Y %H%M%S" applied to the string with
\* its quotes stripped: the quotes are no longer required
StrptimeUnquoted(str) ==
    IF ~MatchesPattern([str EXCEPT !.lq = "'", !.rq = "'"]) THEN <<>>
    ELSE LET mo == CHOOSE k \in 1..12 : MonthNames[k] = str.mon
         IN  IF str.day > DaysInMonth(str.year, mo) \/ str.second > 59
             THEN <<>>
             ELSE <<[year |-> str.year, month |-> mo, day |-> str.day,
                     hour |-> str.hour, minute |-> str.minute,
                     second |-> str.second]>>

\* dt.datetime.strptime(str, "'%d-%b-%Y %H%M%S'"): <<datetime>>, or <<>>
\* when it raises ValueError (no match, or a day the month does not have)
Strptime(str) ==
    IF ~MatchesPattern(str) THEN <<>>
    ELSE LET mo == CHOOSE k \in 1..12 : MonthNames[k] = str.mon
         IN  IF str.day > DaysInMonth(str.year, mo) \/ str.second > 59
             THEN <<>>
             ELSE <<[year |-> str.year, month |-> mo, day |-> str.day,
                     hour |-> str.hour, minute |-> str.minute,
                     second |-> str.second]>>

Header(date, fmt, rate) ==
    [date_created |-> date, format |-> fmt, sampleRate |-> rate]

\* headers the loader answers with: the two first have a well-formed
\* timestamp, the others do not match the pattern or name no real day
Headers ==
    { Header(DateStr("'", 1, "-", "Jan", "-", 2020, " ", 12, 0, 0, "'"),
             "raw", 30000),
      Header(DateStr("'", 29, "-", "Feb", "-", 2016, " ", 23, 59, 59, "'"),
             "0.4", 25000),
      Header(DateStr("", 1, "-", "Jan", "-", 2020, " ", 12, 0, 0, ""),
             "raw", 30000),
      Header(DateStr("'", 1, "/", "Jan", "/", 2020, " ", 12, 0, 0, "'"),
             "raw", 30000),
      Header(DateStr("'", 30, "-", "Feb", "-", 2020, " ", 12, 0, 0, "'"),
             "raw", 30000),
      Header(DateStr("'", 1, "-", "Janvier", "-", 2020, " ", 25, 0, 0, "'"),
             "raw", 30000) }

\* the headers used when calls overlap
FewHeaders ==
    { h \in Headers : h.format = "raw" /\ h.date_created.s1 = "-"
                      /\ h.date_created.day = 1
                      /\ h.date_created.hour = 12 }

(* ------------------------------ arrays -------------------------------- *)
\* data.size
Size(data) ==
    IF Len(data.shape) = 1 THEN data.shape[1]
    ELSE data.shape[1] * data.shape[2]

\* the array numpy.arange(size).reshape(shape), stored row-major
Arange(shape) ==
    LET sz == IF Len(shape) = 1 THEN shape[1] ELSE shape[1] * shape[2]
    IN  [shape |-> shape, flat |-> [j \in 1..sz |-> j - 1]]

\* arrays the loader answers with: one-dimensional and two-dimensional ones,
\* empty ones included
Arrays ==
    { Arange(<<m>>) : m \in 0..MaxSamples }
    \cup { Arange(<<m, n>>) : m \in 0..MaxSamples, n \in 0..MaxChannels }

FewArrays ==
    { Arange(<<0>>), Arange(<<2>>), Arange(<<2, 0>>), Arange(<<1, 2>>) }

\* the file name of the j-th channel (j from 0), relative or absolute
FileName(j, absolute) ==
    (IF absolute THEN <<"/", "mnt", "/">> ELSE <<>>)
    \o <<"100_CH">> \o Str(j + 1) \o <<".continuous">>

FileList(len, absolute) == [j \in 1..len |-> FileName(j - 1, absolute)]

FileLists ==
    { FileList(len, a) : len \in 0..MaxChannels, a \in BOOLEAN }

FewFileLists == { FileList(1, FALSE), FileList(2, FALSE) }

\* directory names an adapter is constructed with
DirNames == { <<"/", "data", "/", "rec">>, <<"rec", "/">> }

\* len(data.shape) == 1 ? 1 : data.shape[1]
ChannelCount(data) ==
    IF Len(data.shape) = 1 THEN 1 ELSE data.shape[2]

\* len(data) == 0: only the first dimension is looked at
IsEmptyNoRows(data) == data.shape[1] = 0

\* data.size == 0
IsEmpty(data) == Size(data) = 0

\* data[i, :]: row i instead of column i
RowForColumn(data, i) ==
    IF Len(data.shape) = 1 THEN <<>>
    ELSE IF i >= data.shape[1] THEN <<>>
    ELSE <<[k \in 1..data.shape[2] |-> data.flat[i * data.shape[2] + k]]>>

\* data[:, i]: <<column i>>, or <<>> when numpy raises IndexError (two
\* indices into a one-dimensional array, or i beyond the second dimension)
Column(data, i) ==
    IF Len(data.shape) = 1 THEN <<>>
    ELSE IF i >= data.shape[2] THEN <<>>
    ELSE <<[r \in 1..data.shape[1] |-> data.flat[(r - 1) * data.shape[2] + i + 1]]>>

\* filelist[i]: <<entry i>>, or <<>> when the list raises IndexError
Item(filelist, i) ==
    IF i < Len(filelist) THEN <<filelist[i + 1]>> ELSE <<>>

(* ---------------------------- object model ---------------------------- *)
\* Block(name=, description=, file_datetime=, rec_datetime=, file_origin=)
NewBlock(dir, header) ==
    [name |-> header.date_created,
     description |-> header.format,
     file_datetime |-> Strptime(header.date_created)[1],
     rec_datetime |-> Strptime(header.date_created)[1],
     file_origin |-> dir,
     segments |-> <<>>]

\* Segment(name=, description=, file_datetime=, rec_datetime=, file_origin=)
NewSegment(dir, header) ==
    [name |-> header.date_created,
     description |-> header.format,
     file_datetime |-> Strptime(header.date_created)[1],
     rec_datetime |-> Strptime(header.date_created)[1],
     file_origin |-> dir,
     analogsignals |-> <<>>,
     block |-> "None"]

\* 'analog signal ' + str(i)
SignalName(i) == <<"analog signal ">> \o Str(i)

\* an AnalogSignal whose file_origin is taken from filelist[0] for every i
NewAnalogSignalFirstFile(dir, header, data, filelist, i) ==
    [signal |-> Column(data, i)[1],
     units |-> "microvolt",
     sampling_rate |-> [magnitude |-> header.sampleRate, units |-> "Hz"],
     name |-> SignalName(i),
     channel_index |-> i,
     description |-> header.format,
     file_origin |-> PathJoin(dir, Item(filelist, 0)[1]),
     segment |-> "None"]

\* AnalogSignal(signal=data[:,i], units=, sampling_rate=, name=,
\*              channel_index=, description=, file_origin=)
NewAnalogSignal(dir, header, data, filelist, i) ==
    [signal |-> Column(data, i)[1],
     units |-> "microvolt",
     sampling_rate |-> [magnitude |-> header.sampleRate, units |-> "Hz"],
     name |-> SignalName(i),
     channel_index |-> i,
     description |-> header.format,
     file_origin |-> PathJoin(dir, Item(filelist, i)[1]),
     segment |-> "None"]

\* block.create_many_to_one_relationship(): every child gets its parent
CreateManyToOneRelationship(block) ==
    LET linkSignal(a) == [a EXCEPT !.segment = "parent"]
        linkSegment(s) ==
            [s EXCEPT !.block = "parent",
                      !.analogsignals =
                          [j \in DOMAIN s.analogsignals |->
                              linkSignal(s.analogsignals[j])]]
    IN  [block EXCEPT !.segments =
            [k \in DOMAIN block.segments |-> linkSegment(block.segments[k])]]

\* print "Folder ", self.dirname, "is empty or can't be read"
EmptyDiagnostic(dir) == <<<<"Folder ">>, dir, <<"is empty or can't be read">>>>

(* ------------------------------- state -------------------------------- *)
VARIABLES
    dirname,     \* self.dirname
    pathname,    \* the argument __init__ was given
    concurrent,  \* whether the caller lets read_block calls overlap
    frame        \* per call: the locals and the position of read_block

vars == <<dirname, pathname, concurrent, frame>>

\* the frame of a call that has not started
IdleFrame ==
    [pc |-> "idle", lazy |-> FALSE, cascade |-> FALSE,
     header |-> <<>>, block |-> <<>>, seg |-> <<>>,
     data |-> <<>>, filelist |-> <<>>, n |-> 0, i |-> 0,
     outcome |-> "none", result |-> <<>>, exc |-> "",
     printed |-> <<>>, log |-> <<>>]

\* __init__(self, dirname): self.dirname = dirname
Construct(dir) ==
    /\ dirname = dir
    /\ pathname = dir
    /\ frame = [c \in Calls |-> IdleFrame]

Init == concurrent = FALSE /\ \E dir \in DirNames : Construct(dir)

InitOverlap == concurrent = TRUE /\ \E dir \in DirNames : Construct(dir)

HeaderInputs == IF concurrent THEN FewHeaders ELSE Headers
ArrayInputs == IF concurrent THEN FewArrays ELSE Arrays
FileListInputs == IF concurrent THEN FewFileLists ELSE FileLists

\* the frame after an exception of the given kind leaves read_block
Raise(f, kind) ==
    [f EXCEPT !.pc = "done", !.outcome = "raised", !.exc = kind]

\* a loop whose exit goes past block.segments.append(seg)
AfterSignalNoAppend(i, n) == IF i < n THEN "signal" ELSE "link"

\* for i in range(n): the loop goes on while i < n
AfterSignal(i, n) == IF i < n THEN "signal" ELSE "append"

\* a loop that catches the exception and goes on with the next channel
SkipFailedSignal(f, kind) ==
    [f EXCEPT !.i = f.i + 1, !.pc = AfterSignal(f.i + 1, f.n)]

\* where read_block goes after a failed AnalogSignal construction
RaiseInLoop(f, kind) == Raise(f, kind)

\* the sample request made whatever cascade is
AfterSegmentAlwaysLoad(cascade) == "load"

\* if cascade: ... (line 114)
AfterSegment(cascade) == IF cascade THEN "load" ELSE "append"

\* a return right after the append, the linking left out
AfterAppendNoLink == "return"

\* the statement after block.segments.append(seg)
AfterAppend == "link"

(* ------------------------------ actions ------------------------------- *)
\* dir.rstrip('/')
RECURSIVE StripSlash(_)
StripSlash(dir) ==
    IF dir # <<>> /\ dir[Len(dir)] = "/"
    THEN StripSlash(SubSeq(dir, 1, Len(dir) - 1))
    ELSE dir

\* a read_block that first stores the normalised path back into self.dirname
ReadBlockNormalising(c, lazy, cascade) ==
    /\ frame[c].pc = "idle"
    /\ concurrent \/ \A o \in Calls : frame[o].pc = "idle"
    /\ frame' = [frame EXCEPT ![c] =
          [IdleFrame EXCEPT !.pc = "get_header", !.lazy = lazy,
                            !.cascade = cascade]]
    /\ dirname' = StripSlash(dirname)
    /\ UNCHANGED <<pathname, concurrent>>

\* a caller enters read_block(lazy, cascade)
ReadBlock(c, lazy, cascade) ==
    /\ frame[c].pc = "idle"
    /\ concurrent \/ \A o \in Calls : frame[o].pc = "idle"
    /\ frame' = [frame EXCEPT ![c] =
          [IdleFrame EXCEPT !.pc = "get_header", !.lazy = lazy,
                            !.cascade = cascade]]
    /\ UNCHANGED <<dirname, pathname, concurrent>>

\* header = OEIO.get_header_from_folder(self.dirname, recording=2)
GetHeader(c) ==
    /\ frame[c].pc = "get_header"
    /\ LET f == [frame[c] EXCEPT !.log = Append(@, "get_header_from_folder")]
       IN  \/ frame' = [frame EXCEPT ![c] = Raise(f, "LoaderError")]
           \/ \E h \in HeaderInputs :
                 frame' = [frame EXCEPT ![c] =
                     [f EXCEPT !.header = <<h>>, !.pc = "build_block"]]
    /\ UNCHANGED <<dirname, pathname, concurrent>>

\* block = Block(...), with strptime of header['date_created']
BuildBlock(c) ==
    /\ frame[c].pc = "build_block"
    /\ LET f == frame[c]
           h == f.header[1]
       IN  frame' = [frame EXCEPT ![c] =
              IF Strptime(h.date_created) = <<>>
              THEN Raise(f, "ValueError")
              ELSE [f EXCEPT !.block = <<NewBlock(dirname, h)>>,
                             !.log = Append(@, "Block"),
                             !.pc = "build_seg"]]
    /\ UNCHANGED <<dirname, pathname, concurrent>>

\* seg = Segment(...), with strptime of header['date_created']
BuildSegment(c) ==
    /\ frame[c].pc = "build_seg"
    /\ LET f == frame[c]
           h == f.header[1]
       IN  frame' = [frame EXCEPT ![c] =
              IF Strptime(h.date_created) = <<>>
              THEN Raise(f, "ValueError")
              ELSE [f EXCEPT !.seg = <<NewSegment(dirname, h)>>,
                             !.log = Append(@, "Segment"),
                             !.pc = AfterSegment(f.cascade)]]
    /\ UNCHANGED <<dirname, pathname, concurrent>>

\* data, filelist = OEIO.loadFolderToArray(...); the empty check with its
\* print and return; the channel count
LoadData(c) ==
    /\ frame[c].pc = "load"
    /\ LET f == [frame[c] EXCEPT !.log = Append(@, "loadFolderToArray")]
       IN  \/ frame' = [frame EXCEPT ![c] = Raise(f, "LoaderError")]
           \/ \E d \in ArrayInputs, fl \in FileListInputs :
                 frame' = [frame EXCEPT ![c] =
                    IF IsEmpty(d)
                    THEN [f EXCEPT !.data = <<d>>, !.filelist = fl,
                             !.printed = Append(@, EmptyDiagnostic(dirname)),
                             !.log = @ \o <<"print", "return">>,
                             !.outcome = "None",
                             !.pc = "done"]
                    ELSE [f EXCEPT !.data = <<d>>, !.filelist = fl,
                             !.n = ChannelCount(d), !.i = 0,
                             !.pc = AfterSignal(0, ChannelCount(d))]]
    /\ UNCHANGED <<dirname, pathname, concurrent>>

\* one pass of the loop: ana = AnalogSignal(...); seg.analogsignals += [ana]
BuildSignal(c) ==
    /\ frame[c].pc = "signal"
    /\ LET f == frame[c]
           d == f.data[1]
       IN  frame' = [frame EXCEPT ![c] =
              IF Column(d, f.i) = <<>> \/ Item(f.filelist, f.i) = <<>>
              THEN RaiseInLoop(f, "IndexError")
              ELSE [f EXCEPT
                      !.seg = <<[f.seg[1] EXCEPT !.analogsignals =
                                   Append(@, NewAnalogSignal(dirname,
                                       f.header[1], d, f.filelist, f.i))]>>,
                      !.log = Append(@, "AnalogSignal"),
                      !.i = f.i + 1,
                      !.pc = AfterSignal(f.i + 1, f.n)]]
    /\ UNCHANGED <<dirname, pathname, concurrent>>

\* block.segments.append(seg)
AppendSegment(c) ==
    /\ frame[c].pc = "append"
    /\ frame' = [frame EXCEPT ![c] =
          [frame[c] EXCEPT
              !.block = <<[frame[c].block[1] EXCEPT !.segments =
                             Append(@, frame[c].seg[1])]>>,
              !.log = Append(@, "segments.append"),
              !.pc = AfterAppend]]
    /\ UNCHANGED <<dirname, pathname, concurrent>>

\* block.create_many_to_one_relationship()
LinkRelationships(c) ==
    /\ frame[c].pc = "link"
    /\ frame' = [frame EXCEPT ![c] =
          [frame[c] EXCEPT
              !.block = <<CreateManyToOneRelationship(frame[c].block[1])>>,
              !.log = Append(@, "create_many_to_one_relationship"),
              !.pc = "return"]]
    /\ UNCHANGED <<dirname, pathname, concurrent>>

\* return block
ReturnBlock(c) ==
    /\ frame[c].pc = "return"
    /\ frame' = [frame EXCEPT ![c] =
          [frame[c] EXCEPT !.outcome = "Block",
                           !.result = frame[c].block,
                           !.log = Append(@, "return"),
                           !.pc = "done"]]
    /\ UNCHANGED <<dirname, pathname, concurrent>>

\* the caller has the outcome; the frame is gone
Collect(c) ==
    /\ frame[c].pc = "done"
    /\ frame' = [frame EXCEPT ![c] = IdleFrame]
    /\ UNCHANGED <<dirname, pathname, concurrent>>

Next ==
    \E c \in Calls :
        \/ \E lazy \in BOOLEAN, cascade \in BOOLEAN : ReadBlock(c, lazy, cascade)
        \/ GetHeader(c)
        \/ BuildBlock(c)
        \/ BuildSegment(c)
        \/ LoadData(c)
        \/ BuildSignal(c)
        \/ AppendSegment(c)
        \/ LinkRelationships(c)
        \/ ReturnBlock(c)
        \/ Collect(c)

Spec == Init /\ [][Next]_vars

SpecOverlap == InitOverlap /\ [][Next]_vars

(* ------------------------- reading the frames ------------------------- *)
Done(c) == frame[c].pc = "done"

\* a is a prefix of b
IsPrefix(a, b) == Len(a) <= Len(b) /\ \A k \in DOMAIN a : a[k] = b[k]

\* how many times the event e is in the log
Count(log, e) == Cardinality({k \in DOMAIN log : log[k] = e})

\* the signal sequence of the (first) Segment of a returned Block
Signals(c) == frame[c].result[1].segments[1].analogsignals

\* the call got a two-dimensional array with m >= 1 samples of n >= 1 channels
GotMatrix(c) ==
    /\ frame[c].data # <<>>
    /\ Len(frame[c].data[1].shape) = 2
    /\ frame[c].data[1].shape[1] >= 1
    /\ frame[c].data[1].shape[2] >= 1

\* the call got a one-dimensional array that is not empty
GotVector(c) ==
    /\ frame[c].data # <<>>
    /\ Len(frame[c].data[1].shape) = 1
    /\ frame[c].data[1].shape[1] >= 1

\* the call got an array of size 0
GotNothing(c) ==
    /\ frame[c].data # <<>>
    /\ \E k \in DOMAIN frame[c].data[1].shape : frame[c].data[1].shape[k] = 0

(* C1: a finished read_block with cascade=True whose loader answered with a
   two-dimensional array of n >= 1 channels and m >= 1 samples and a file
   list of n entries has returned a Block with exactly one Segment holding
   exactly n AnalogSignals, each with m samples. *)
C1_MatrixGivesBlock ==
    \A c \in Calls :
        (Done(c) /\ frame[c].cascade /\ GotMatrix(c)
         /\ Len(frame[c].filelist) = frame[c].data[1].shape[2])
        => /\ frame[c].outcome = "Block"
           /\ Len(frame[c].result[1].segments) = 1
           /\ Len(Signals(c)) = frame[c].data[1].shape[2]
           /\ \A k \in DOMAIN Signals(c) :
                 Len(Signals(c)[k].signal) = frame[c].data[1].shape[1]

C1_Witness ==
    \E c \in Calls :
        /\ Done(c) /\ frame[c].cascade /\ GotMatrix(c)
        /\ frame[c].data[1].shape = <<2, 1>>
        /\ frame[c].outcome = "Block"
        /\ Len(Signals(c)) = 1

(* C2: a finished read_block with cascade=True whose loader answered with a
   one-dimensional, non-empty array (and a file list with an entry for the
   channel) has counted one channel and returned a Block whose Segment
   holds exactly one AnalogSignal. *)
C2_VectorGivesOneSignal ==
    \A c \in Calls :
        (Done(c) /\ frame[c].cascade /\ GotVector(c)
         /\ Len(frame[c].filelist) >= 1)
        => /\ frame[c].n = 1
           /\ frame[c].outcome = "Block"
           /\ Len(Signals(c)) = 1

(* C3: a finished read_block with cascade=False has not asked the loader for
   samples, has printed nothing and has not ended in "no result"; what it
   returned is a Block with exactly one Segment holding zero AnalogSignals,
   and it did return one whenever the header's timestamp parses. *)
C3_NoCascadeNoSignals ==
    \A c \in Calls :
        (Done(c) /\ ~frame[c].cascade)
        => /\ frame[c].outcome # "None"
           /\ frame[c].printed = <<>>
           /\ Count(frame[c].log, "loadFolderToArray") = 0
           /\ frame[c].data = <<>>
           /\ (frame[c].header # <<>>
               /\ Strptime(frame[c].header[1].date_created) # <<>>)
              => frame[c].outcome = "Block"
           /\ frame[c].outcome = "Block"
              => /\ Len(frame[c].result[1].segments) = 1
                 /\ Signals(c) = <<>>

C3_Witness ==
    \E c \in Calls :
        /\ Done(c) /\ ~frame[c].cascade
        /\ frame[c].outcome = "Block"
        /\ Len(frame[c].result[1].segments) = 1

(* C4: a finished read_block with cascade=True whose loader answered with an
   array of size 0 has returned no result (no Block), has raised nothing and
   has printed exactly one message, which names the configured directory. *)
C4_EmptyGivesNone ==
    \A c \in Calls :
        (Done(c) /\ frame[c].cascade /\ GotNothing(c))
        => /\ frame[c].outcome = "None"
           /\ frame[c].result = <<>>
           /\ frame[c].exc = ""
           /\ Len(frame[c].printed) = 1
           /\ frame[c].printed[1][2] = pathname

C4_Witness ==
    \E c \in Calls :
        /\ Done(c) /\ frame[c].cascade
        /\ frame[c].data # <<>> /\ frame[c].data[1].shape = <<2, 0>>
        /\ frame[c].outcome = "None"
        /\ Len(frame[c].printed) = 1

(* C5: every finished read_block has exactly one of three outcomes: a Block
   (with cascade=True: one Segment with a Signal for every channel of the
   loaded array), no result (only with cascade=True and an empty array), or
   a raised exception (then nothing is returned); before it has finished
   nothing is returned.  A Block with Signals for only some of the channels
   is never returned. *)
C5_NoPartialResult ==
    \A c \in Calls :
        /\ ~Done(c) => (frame[c].outcome = "none" /\ frame[c].result = <<>>)
        /\ Done(c) =>
            /\ frame[c].outcome \in {"Block", "None", "raised"}
            /\ (frame[c].outcome = "raised") = (frame[c].exc # "")
            /\ (frame[c].outcome = "Block") = (frame[c].result # <<>>)
            /\ frame[c].outcome = "None"
               => (frame[c].cascade /\ GotNothing(c))
            /\ frame[c].outcome = "Block"
               => /\ Len(frame[c].result[1].segments) = 1
                  /\ Len(Signals(c)) =
                        (IF ~frame[c].cascade THEN 0
                         ELSE IF Len(frame[c].data[1].shape) = 1 THEN 1
                         ELSE frame[c].data[1].shape[2])

\* an exception left the loop after a Signal had been attached
C5_Witness ==
    \E c \in Calls :
        /\ Done(c) /\ frame[c].exc = "IndexError"
        /\ Len(frame[c].seg[1].analogsignals) >= 1
        /\ frame[c].result = <<>>

(* C6 as claimed: every read_block that has finished without raising has
   invoked create_many_to_one_relationship exactly once. *)
C6_LinkedOncePerCompletedCall ==
    \A c \in Calls :
        (Done(c) /\ frame[c].outcome # "raised")
        => Count(frame[c].log, "create_many_to_one_relationship") = 1

(* C6 amended: create_many_to_one_relationship is invoked exactly once in
   every read_block that returns a Block and not at all in one that returns
   no result or raises; it is invoked only after the Segment has been
   appended to the Block's segment sequence. *)
C6_LinkedOncePerReturnedBlock ==
    \A c \in Calls :
        LET log == frame[c].log
            links == {k \in DOMAIN log :
                         log[k] = "create_many_to_one_relationship"}
        IN  /\ Cardinality(links) <= 1
            /\ Done(c) =>
                 Cardinality(links) =
                     (IF frame[c].outcome = "Block" THEN 1 ELSE 0)
            /\ \A k \in links :
                 /\ \E j \in 1..(k - 1) : log[j] = "segments.append"
                 /\ Len(frame[c].block[1].segments) = 1

C6_Witness ==
    \E c \in Calls :
        /\ Done(c) /\ frame[c].outcome = "Block"
        /\ Count(frame[c].log, "create_many_to_one_relationship") = 1
        /\ frame[c].result[1].segments[1].block = "parent"

(* C7: in the Block a read_block with cascade=True has returned for an
   n-channel array, the i-th Signal (i in 0..n-1) is the one built from
   sample column i: its samples are column i, its channel_index is i, its
   name is 'analog signal ' followed by the decimal digits of i, and its
   file_origin is the configured directory joined with the i-th entry of the
   loader's file list (so it ends with that entry); there are exactly n
   Signals. *)
C7_SignalsInChannelOrder ==
    \A c \in Calls :
        (Done(c) /\ frame[c].cascade /\ frame[c].outcome = "Block")
        => LET d == frame[c].data[1]
               m == d.shape[1]
               n == d.shape[2]
               fl == frame[c].filelist
           IN  /\ Len(Signals(c)) = n
               /\ \A i \in 0..(n - 1) :
                    LET sig == Signals(c)[i + 1]
                        fo == sig.file_origin
                    IN  /\ sig.channel_index = i
                        /\ i < 10 => sig.name = <<"analog signal ", Digits[i + 1]>>
                        /\ sig.signal = [r \in 1..m |-> d.flat[(r - 1) * n + i + 1]]
                        /\ fo = PathJoin(pathname, fl[i + 1])
                        /\ Len(fo) >= Len(fl[i + 1])
                        /\ SubSeq(fo, Len(fo) - Len(fl[i + 1]) + 1, Len(fo))
                              = fl[i + 1]

C7_Witness ==
    \E c \in Calls :
        /\ Done(c) /\ frame[c].cascade /\ frame[c].outcome = "Block"
        /\ Len(Signals(c)) = 2
        /\ Signals(c)[2].channel_index = 1
        /\ Signals(c)[2].file_origin # Signals(c)[1].file_origin

(* C8: a finished read_block whose header's creation timestamp does not
   match the fixed pattern has raised ValueError (the parse failure, as it
   is), has returned no Block, has printed nothing and has never asked the
   loader for the sample array, whatever cascade is. *)
C8_MalformedTimestampRaises ==
    \A c \in Calls :
        (Done(c) /\ frame[c].header # <<>>
         /\ ~MatchesPattern(frame[c].header[1].date_created))
        => /\ frame[c].outcome = "raised"
           /\ frame[c].exc = "ValueError"
           /\ frame[c].result = <<>>
           /\ frame[c].printed = <<>>
           /\ frame[c].data = <<>>
           /\ Count(frame[c].log, "loadFolderToArray") = 0

C8_Witness ==
    \E c \in Calls :
        /\ Done(c) /\ frame[c].cascade
        /\ frame[c].header # <<>>
        /\ frame[c].header[1].date_created.lq = ""
        /\ frame[c].exc = "ValueError"

\* read_block as a function of the configured directory, its cascade
\* argument and the loader's answers (<<>>: the loader raised)
Expected(dir, cascade, hresp, dresp, fl) ==
    LET none == [outcome |-> "None", result |-> <<>>, exc |-> "",
                 printed |-> <<EmptyDiagnostic(dir)>>]
        raised(kind) == [outcome |-> "raised", result |-> <<>>, exc |-> kind,
                         printed |-> <<>>]
        block(signals) ==
            [outcome |-> "Block",
             result |-> <<CreateManyToOneRelationship(
                           [NewBlock(dir, hresp[1]) EXCEPT !.segments =
                              <<[NewSegment(dir, hresp[1]) EXCEPT
                                   !.analogsignals = signals]>>])>>,
             exc |-> "", printed |-> <<>>]
    IN  IF hresp = <<>> THEN raised("LoaderError")
        ELSE IF Strptime(hresp[1].date_created) = <<>> THEN raised("ValueError")
        ELSE IF ~cascade THEN block(<<>>)
        ELSE IF dresp = <<>> THEN raised("LoaderError")
        ELSE IF Size(dresp[1]) = 0 THEN none
        ELSE IF \E i \in 0..(ChannelCount(dresp[1]) - 1) :
                   Column(dresp[1], i) = <<>> \/ Item(fl, i) = <<>>
             THEN raised("IndexError")
        ELSE block([k \in 1..ChannelCount(dresp[1]) |->
                       NewAnalogSignal(dir, hresp[1], dresp[1], fl, k - 1)])

(* C9: whatever calls have run or are running on the instance, dirname is
   the value __init__ was given, and the outcome of every finished call (the
   Block, no result or the exception, and what it printed) is the one its
   cascade argument and the loader's answers to it determine. *)
C9_NoInstanceStateMutated ==
    /\ dirname = pathname
    /\ \A c \in Calls :
          Done(c) =>
             LET e == Expected(pathname, frame[c].cascade, frame[c].header,
                               frame[c].data, frame[c].filelist)
             IN  /\ frame[c].outcome = e.outcome
                 /\ frame[c].result = e.result
                 /\ frame[c].exc = e.exc
                 /\ frame[c].printed = e.printed

\* two calls that overlapped have finished, one with a Block of two
\* Signals and one with no result
C9_Witness ==
    \E a, b \in Calls :
        /\ a # b /\ Done(a) /\ Done(b)
        /\ frame[a].outcome = "Block" /\ frame[a].cascade
        /\ Len(Signals(a)) = 2
        /\ frame[b].outcome = "None"
        /\ dirname = <<"rec", "/">>

\* the events of a call that returns a Block of n Signals, header first and
\* the sample request second
ClaimedOrder(n) ==
    <<"get_header_from_folder", "loadFolderToArray", "Block", "Segment">>
    \o [k \in 1..n |-> "AnalogSignal"]
    \o <<"segments.append", "create_many_to_one_relationship", "return">>

\* the same events, the containers built before the sample request
CodeOrder(n) ==
    <<"get_header_from_folder", "Block", "Segment", "loadFolderToArray">>
    \o [k \in 1..n |-> "AnalogSignal"]
    \o <<"segments.append", "create_many_to_one_relationship", "return">>

(* C10 as claimed: a read_block with cascade=True that has returned a Block
   went through: header request, sample request, Block and Segment built,
   signals attached, relationships linked, return. *)
C10_ClaimedStepOrder ==
    \A c \in Calls :
        (Done(c) /\ frame[c].cascade /\ frame[c].outcome = "Block")
        => frame[c].log = ClaimedOrder(frame[c].n)

(* C10 amended: within one read_block with cascade=True the steps occur in
   the order: header request, Block and Segment built, sample request,
   signals attached (one per channel), Segment appended, relationships
   linked, return; every step but the attaching of a signal happens at most
   once, and the header request precedes the sample request. *)
C10_CodeStepOrder ==
    \A c \in Calls :
        frame[c].cascade =>
            LET log == frame[c].log
            IN  /\ \A e \in {"get_header_from_folder", "Block", "Segment",
                             "loadFolderToArray", "segments.append",
                             "create_many_to_one_relationship", "return"} :
                       Count(log, e) <= 1
                /\ \A k \in DOMAIN log :
                       log[k] = "loadFolderToArray"
                       => \E j \in 1..(k - 1) : log[j] = "get_header_from_folder"
                /\ \E n \in 0..Len(log) :
                       \/ IsPrefix(log, CodeOrder(n))
                       \/ log = <<"get_header_from_folder", "Block", "Segment",
                                  "loadFolderToArray", "print", "return">>
                /\ (Done(c) /\ frame[c].outcome = "Block")
                   => log = CodeOrder(frame[c].n)

C10_Witness ==
    \E c \in Calls :
        /\ Done(c) /\ frame[c].cascade /\ frame[c].outcome = "Block"
        /\ frame[c].n = 2
        /\ Count(frame[c].log, "AnalogSignal") = 2
=============================================================================
